---- MODULE Spec2Model ----
(***************************************************************************)
(* A model of the single-pass JSON scanner of src/lib.rs:                  *)
(* parse / parse_with_exit_signal, end_of_value and the State machine.    *)
(*                                                                         *)
(* The input `on` is a sequence of characters.  A character is a one       *)
(* character string, except for the two named non-ASCII characters         *)
(* "U+00E9" (e-acute, 2 bytes in UTF-8, not whitespace) and "U+00A0"       *)
(* (no-break space, 2 bytes, char::is_whitespace is true).  Offsets are    *)
(* byte offsets, as produced by str::char_indices.                         *)
(***************************************************************************)
EXTENDS Integers, Sequences, FiniteSets, TLC

VARIABLES
    on,         \* the input text (the part of it fixed so far)
    pos,        \* number of characters the `for (idx, chr) in chars` loop has consumed
    state,      \* the State enum value, with its payload
    key_chain,  \* Vec<JSONKey>
    calls,      \* the callback invocations so far: key path, value, returned stop flag
    result,     \* Running, or the value returned: Ok(n) / Err{at, reason}
    options,    \* ParseOptions
    entry,      \* which public function was called
    fed,        \* number of pieces of input text fixed so far (bounds the input)
    keys,       \* key_chain_equals: the argument `keys`
    expected,   \* key_chain_equals: the argument `expected`
    returned    \* what key_chain_equals / unescape_string_content returned

vars == <<on, pos, state, key_chain, calls, result, options, entry, fed,
          keys, expected, returned>>

----------------------------------------------------------------------------
(* Characters *)

\* char::len_utf8
len_utf8(chr) == IF chr \in {"U+00E9", "U+00A0"} THEN 2 ELSE 1

\* char::is_whitespace (the White_Space characters that the alphabets use)
is_whitespace(chr) == chr \in {" ", "\n", "\t", "\r", "U+00A0"}

Digits == {"0", "1", "2", "3", "4", "5", "6", "7", "8", "9"}

RECURSIVE ByteLen(_)
\* str::len of a text: the sum of its characters' UTF-8 widths
ByteLen(s) == IF s = <<>> THEN 0 ELSE len_utf8(s[1]) + ByteLen(Tail(s))

\* the byte offset char_indices yields for the i-th character of s (1-based i)
OffsetOf(s, i) == ByteLen(SubSeq(s, 1, i - 1))

\* &s[a..b] over byte offsets a, b that fall on character boundaries
Slice(s, a, b) ==
    LET I == {i \in 1..Len(s) : a <= OffsetOf(s, i) /\ OffsetOf(s, i) < b}
    IN  IF I = {} THEN <<>>
        ELSE LET lo == CHOOSE i \in I : \A j \in I : i <= j
             IN  [k \in 1..Cardinality(I) |-> s[lo + k - 1]]

----------------------------------------------------------------------------
(* JSONKey, RootJSONValue, JSONParseError, State *)

KeySlice(s) == [tag |-> "Slice", s |-> s]
KeyIndex(i) == [tag |-> "Index", i |-> i]

ValString(s) == [tag |-> "String", s |-> s]
ValNumber(s) == [tag |-> "Number", s |-> s]
ValBoolean(b) == [tag |-> "Boolean", b |-> b]
ValNull == [tag |-> "Null"]

Running == [tag |-> "Running"]
Ok(n) == [tag |-> "Ok", n |-> n]
Err(at, reason) == [tag |-> "Err", at |-> at, reason |-> reason]

StInKey(escaped, start) == [tag |-> "InKey", escaped |-> escaped, start |-> start]
StColon == [tag |-> "Colon"]
StInObject == [tag |-> "InObject"]
StComment(start, multiline, last_was_asterisk, hash) ==
    [tag |-> "Comment", start |-> start, multiline |-> multiline,
     last_was_asterisk |-> last_was_asterisk, hash |-> hash]
StExpectingValue == [tag |-> "ExpectingValue"]
StStringValue(start, escaped) == [tag |-> "StringValue", start |-> start, escaped |-> escaped]
StNumberValue(start) == [tag |-> "NumberValue", start |-> start]
StTrueFalseNull(start) == [tag |-> "TrueFalseNull", start |-> start]
StEndOfValue == [tag |-> "EndOfValue"]

\* #[derive(Default)] on ParseOptions: both switches false
ParseOptionsDefault == [exit_on_first_value |-> FALSE, allow_comments |-> FALSE]

----------------------------------------------------------------------------
(* Vec<JSONKey> helpers *)

Last(s) == s[Len(s)]
\* Vec::pop: a no-op on an empty vector
Pop(kc) == IF kc = <<>> THEN kc ELSE SubSeq(kc, 1, Len(kc) - 1)
TopIsIndex(kc) == kc # <<>> /\ Last(kc).tag = "Index"
TopIsSlice(kc) == kc # <<>> /\ Last(kc).tag = "Slice"

\* one callback invocation: cb(&key_chain, value) returning `ret`
Call(kc, value, ret) == [keys |-> kc, value |-> value, ret |-> ret]

\* the state a finished comment returns to
AfterComment(kc) == IF TopIsIndex(kc) THEN StExpectingValue ELSE StInObject

----------------------------------------------------------------------------
(* fn end_of_value: returns the new state, the new key_chain and the error *)
(* (err = "" when the function returns Ok(())).                            *)

\* end_of_value as if a closer popped whatever key is on top
end_of_value_any_closer(idx, chr, st, kc, allow_comments) ==
    IF chr = "," THEN
        IF TopIsIndex(kc)
        THEN [state |-> StExpectingValue,
              key_chain |-> [kc EXCEPT ![Len(kc)] = KeyIndex(@.i + 1)], err |-> ""]
        ELSE [state |-> StInObject, key_chain |-> Pop(kc), err |-> ""]
    ELSE IF chr \in {"}", "]"} /\ kc # <<>> THEN
        [state |-> st, key_chain |-> Pop(kc), err |-> ""]
    ELSE IF allow_comments /\ chr \in {"/", "#"} THEN
        [state |-> StComment(idx, FALSE, FALSE, chr = "#"), key_chain |-> Pop(kc), err |-> ""]
    ELSE IF ~is_whitespace(chr) THEN
        [state |-> st, key_chain |-> kc, err |-> "ExpectedEndOfValue"]
    ELSE
        [state |-> st, key_chain |-> kc, err |-> ""]

end_of_value(idx, chr, st, kc, allow_comments) ==
    IF chr = "," THEN
        IF TopIsIndex(kc)
        THEN [state |-> StExpectingValue,
              key_chain |-> [kc EXCEPT ![Len(kc)] = KeyIndex(@.i + 1)], err |-> ""]
        ELSE [state |-> StInObject, key_chain |-> Pop(kc), err |-> ""]
    ELSE IF chr = "}" /\ TopIsSlice(kc) THEN
        [state |-> st, key_chain |-> Pop(kc), err |-> ""]
    ELSE IF chr = "]" /\ TopIsIndex(kc) THEN
        [state |-> st, key_chain |-> Pop(kc), err |-> ""]
    ELSE IF allow_comments /\ chr \in {"/", "#"} THEN
        [state |-> StComment(idx, FALSE, FALSE, chr = "#"), key_chain |-> Pop(kc), err |-> ""]
    ELSE IF ~is_whitespace(chr) THEN
        [state |-> st, key_chain |-> kc, err |-> "ExpectedEndOfValue"]
    ELSE
        [state |-> st, key_chain |-> kc, err |-> ""]

----------------------------------------------------------------------------
(* One iteration of the loop of parse_with_exit_signal on character chr    *)
(* at byte offset idx of src.  m is [state, key_chain, calls, result];     *)
(* stop is what the callback returns if this iteration invokes it.         *)

\* NumberStopOffset as if the delimiter had been consumed
NumberStopOffsetPastDelimiter(idx, chr) == idx + len_utf8(chr)

\* the offset returned when the callback stops on a number: the delimiter's own offset
NumberStopOffset(idx, chr) == idx

\* the offset returned when the callback stops on a string or literal
ValueStopOffset(idx, chr) == idx + len_utf8(chr)

\* a callback on `value`; on stop the function returns Ok(stopAt), else goes to `next`
Emit(m, value, stop, stopAt, next) ==
    [state |-> next, key_chain |-> m.key_chain,
     calls |-> Append(m.calls, Call(m.key_chain, value, stop)),
     result |-> IF stop THEN Ok(stopAt) ELSE Running]

InKeyArm(m, src, idx, chr) ==
    IF ~m.state.escaped /\ chr = "\""
    THEN [m EXCEPT !.key_chain = Append(@, KeySlice(Slice(src, m.state.start, idx))),
                   !.state = StColon]
    ELSE [m EXCEPT !.state = StInKey(chr = "\\", m.state.start)]

StringValueArm(m, src, idx, chr, stop) ==
    IF ~m.state.escaped /\ chr = "\""
    THEN Emit(m, ValString(Slice(src, m.state.start, idx)), stop,
              ValueStopOffset(idx, chr), StEndOfValue)
    ELSE [m EXCEPT !.state = StStringValue(m.state.start, chr = "\\")]

ColonArm(m, idx, chr) ==
    IF chr = ":" THEN [m EXCEPT !.state = StExpectingValue]
    ELSE IF ~is_whitespace(chr) THEN [m EXCEPT !.result = Err(idx, "ExpectedColon")]
    ELSE m

\* the early return of the EndOfValue arm
ExitOnFirstValue(opts, kc, chr) == opts.exit_on_first_value /\ kc = <<>> /\ chr # ","

EndOfValueArm(m, idx, chr, opts) ==
    LET r == end_of_value(idx, chr, m.state, m.key_chain, opts.allow_comments)
    IN  IF r.err # "" THEN [m EXCEPT !.result = Err(idx, r.err)]
        ELSE [m EXCEPT !.state = r.state, !.key_chain = r.key_chain,
                       !.result = IF ExitOnFirstValue(opts, r.key_chain, chr)
                                  THEN Ok(idx + len_utf8(chr)) ELSE Running]

\* CommentArm as if the `*` of the opener `/*` could begin the closing `*/`
CommentArmOpenerStar(m, idx, chr) ==
    LET s == m.state
    IN  IF chr = "\n" /\ ~s.multiline THEN
            [m EXCEPT !.state = AfterComment(m.key_chain)]
        ELSE IF chr = "*" /\ s.start + 1 = idx /\ ~s.hash THEN
            [m EXCEPT !.state = StComment(s.start, TRUE, TRUE, s.hash)]
        ELSE IF s.multiline THEN
            IF s.last_was_asterisk /\ chr = "/"
            THEN [m EXCEPT !.state = AfterComment(m.key_chain)]
            ELSE [m EXCEPT !.state = StComment(s.start, s.multiline, chr = "*", s.hash)]
        ELSE m

CommentArm(m, idx, chr) ==
    LET s == m.state
    IN  IF chr = "\n" /\ ~s.multiline THEN
            [m EXCEPT !.state = AfterComment(m.key_chain)]
        ELSE IF chr = "*" /\ s.start + 1 = idx /\ ~s.hash THEN
            [m EXCEPT !.state = StComment(s.start, TRUE, s.last_was_asterisk, s.hash)]
        ELSE IF s.multiline THEN
            IF s.last_was_asterisk /\ chr = "/"
            THEN [m EXCEPT !.state = AfterComment(m.key_chain)]
            ELSE [m EXCEPT !.state = StComment(s.start, s.multiline, chr = "*", s.hash)]
        ELSE m

\* ExpectingValueArm as if array positions were counted from one
ExpectingValueArmOneBased(m, idx, chr, opts) ==
    IF chr = "{" THEN [m EXCEPT !.state = StInObject]
    ELSE IF chr = "[" THEN [m EXCEPT !.key_chain = Append(@, KeyIndex(1)),
                                     !.state = StExpectingValue]
    ELSE IF chr = "\"" THEN [m EXCEPT !.state = StStringValue(idx + 1, FALSE)]
    ELSE IF chr \in {"/", "#"} /\ opts.allow_comments THEN
        [m EXCEPT !.state = StComment(idx, FALSE, FALSE, chr = "#")]
    ELSE IF chr \in Digits \cup {"-"} THEN [m EXCEPT !.state = StNumberValue(idx)]
    ELSE IF chr \in {"t", "f", "n"} THEN [m EXCEPT !.state = StTrueFalseNull(idx)]
    ELSE IF is_whitespace(chr) THEN m
    ELSE [m EXCEPT !.result = Err(idx, "ExpectedValue")]

ExpectingValueArm(m, idx, chr, opts) ==
    IF chr = "{" THEN [m EXCEPT !.state = StInObject]
    ELSE IF chr = "[" THEN [m EXCEPT !.key_chain = Append(@, KeyIndex(0)),
                                     !.state = StExpectingValue]
    ELSE IF chr = "\"" THEN [m EXCEPT !.state = StStringValue(idx + 1, FALSE)]
    ELSE IF chr \in {"/", "#"} /\ opts.allow_comments THEN
        [m EXCEPT !.state = StComment(idx, FALSE, FALSE, chr = "#")]
    ELSE IF chr \in Digits \cup {"-"} THEN [m EXCEPT !.state = StNumberValue(idx)]
    ELSE IF chr \in {"t", "f", "n"} THEN [m EXCEPT !.state = StTrueFalseNull(idx)]
    ELSE IF is_whitespace(chr) THEN m
    ELSE [m EXCEPT !.result = Err(idx, "ExpectedValue")]

\* InObjectArm as if comments were accepted whatever the options say
InObjectArmAlwaysComments(m, idx, chr, opts) ==
    IF chr = "\"" THEN [m EXCEPT !.state = StInKey(FALSE, idx + 1)]
    ELSE IF chr = "}" THEN
        [m EXCEPT !.state = IF TopIsIndex(m.key_chain) THEN StExpectingValue ELSE StInObject]
    ELSE IF chr \in {"/", "#"} THEN
        [m EXCEPT !.state = StComment(idx, FALSE, FALSE, chr = "#")]
    ELSE IF ~is_whitespace(chr) THEN [m EXCEPT !.result = Err(idx, "ExpectedKey")]
    ELSE m

InObjectArm(m, idx, chr, opts) ==
    IF chr = "\"" THEN [m EXCEPT !.state = StInKey(FALSE, idx + 1)]
    ELSE IF chr = "}" THEN
        [m EXCEPT !.state = IF TopIsIndex(m.key_chain) THEN StExpectingValue ELSE StInObject]
    ELSE IF opts.allow_comments /\ chr \in {"/", "#"} THEN
        [m EXCEPT !.state = StComment(idx, FALSE, FALSE, chr = "#")]
    ELSE IF ~is_whitespace(chr) THEN [m EXCEPT !.result = Err(idx, "ExpectedKey")]
    ELSE m

\* NumberValueArm as if the slice ran through the delimiter
NumberValueArmThroughDelimiter(m, src, idx, chr, opts, stop) ==
    IF is_whitespace(chr) \/ chr \in {"}", ",", "]"} THEN
        LET e == Emit(m, ValNumber(Slice(src, m.state.start, idx + len_utf8(chr))), stop,
                      NumberStopOffset(idx, chr), StEndOfValue)
            r == end_of_value(idx, chr, StEndOfValue, m.key_chain, opts.allow_comments)
        IN  IF stop THEN e
            ELSE IF r.err # "" THEN [e EXCEPT !.result = Err(idx, r.err)]
            ELSE [e EXCEPT !.state = r.state, !.key_chain = r.key_chain]
    ELSE m

NumberValueArm(m, src, idx, chr, opts, stop) ==
    IF is_whitespace(chr) \/ chr \in {"}", ",", "]"} THEN
        LET e == Emit(m, ValNumber(Slice(src, m.state.start, idx)), stop,
                      NumberStopOffset(idx, chr), StEndOfValue)
            r == end_of_value(idx, chr, StEndOfValue, m.key_chain, opts.allow_comments)
        IN  IF stop THEN e
            ELSE IF r.err # "" THEN [e EXCEPT !.result = Err(idx, r.err)]
            ELSE [e EXCEPT !.state = r.state, !.key_chain = r.key_chain]
    ELSE m

\* LiteralAtFour as if "fals" were rejected instead of waiting for the fifth byte
LiteralAtFourNoDefer(m, text, idx, chr, stop) ==
    IF text = <<"t", "r", "u", "e">> THEN
        Emit(m, ValBoolean(TRUE), stop, ValueStopOffset(idx, chr), StEndOfValue)
    ELSE IF text = <<"n", "u", "l", "l">> THEN
        Emit(m, ValNull, stop, ValueStopOffset(idx, chr), StEndOfValue)
    ELSE [m EXCEPT !.result = Err(idx, "ExpectedTrueFalseNull")]

\* diff == 4: the four bytes buffered so far decide
LiteralAtFour(m, text, idx, chr, stop) ==
    IF text = <<"t", "r", "u", "e">> THEN
        Emit(m, ValBoolean(TRUE), stop, ValueStopOffset(idx, chr), StEndOfValue)
    ELSE IF text = <<"n", "u", "l", "l">> THEN
        Emit(m, ValNull, stop, ValueStopOffset(idx, chr), StEndOfValue)
    ELSE IF text = <<"f", "a", "l", "s">> THEN m
    ELSE [m EXCEPT !.result = Err(idx, "ExpectedTrueFalseNull")]

TrueFalseNullArm(m, src, idx, chr, stop) ==
    LET diff == idx - m.state.start + 1
        text == Slice(src, m.state.start, idx + len_utf8(chr))
    IN  IF diff < 4 THEN m
        ELSE IF diff = 4 THEN LiteralAtFour(m, text, idx, chr, stop)
        ELSE IF text = <<"f", "a", "l", "s", "e">> THEN
            Emit(m, ValBoolean(FALSE), stop, ValueStopOffset(idx, chr), StEndOfValue)
        ELSE [m EXCEPT !.result = Err(idx, "ExpectedTrueFalseNull")]

LoopBody(m, src, idx, chr, opts, stop) ==
    CASE m.state.tag = "InKey" -> InKeyArm(m, src, idx, chr)
      [] m.state.tag = "StringValue" -> StringValueArm(m, src, idx, chr, stop)
      [] m.state.tag = "Colon" -> ColonArm(m, idx, chr)
      [] m.state.tag = "EndOfValue" -> EndOfValueArm(m, idx, chr, opts)
      [] m.state.tag = "Comment" -> CommentArm(m, idx, chr)
      [] m.state.tag = "ExpectingValue" -> ExpectingValueArm(m, idx, chr, opts)
      [] m.state.tag = "InObject" -> InObjectArm(m, idx, chr, opts)
      [] m.state.tag = "NumberValue" -> NumberValueArm(m, src, idx, chr, opts, stop)
      [] m.state.tag = "TrueFalseNull" -> TrueFalseNullArm(m, src, idx, chr, stop)

----------------------------------------------------------------------------
(* The match on `state` after the loop, and the final Ok(on.len()).        *)
(* The callback's return value is ignored for a number open at the end.    *)

\* AfterLoop with the unterminated string and key cases left out of the match
AfterLoopNoQuoteCheck(m, src, stop) ==
    IF m.state.tag = "NumberValue"
    THEN [m EXCEPT !.calls = Append(@, Call(m.key_chain,
                                    ValNumber(Slice(src, m.state.start, ByteLen(src))), stop)),
                   !.result = Ok(ByteLen(src))]
    ELSE IF m.state.tag \in {"InKey", "StringValue"} THEN [m EXCEPT !.result = Ok(ByteLen(src))]
    ELSE IF m.state.tag = "Colon" THEN [m EXCEPT !.result = Err(ByteLen(src), "ExpectedColon")]
    ELSE IF m.state.tag = "Comment" /\ m.state.multiline
    THEN [m EXCEPT !.result = Err(ByteLen(src), "ExpectedEndOfMultilineComment")]
    ELSE IF m.state.tag = "TrueFalseNull"
    THEN [m EXCEPT !.result = Err(ByteLen(src), "ExpectedTrueFalseNull")]
    ELSE IF m.state.tag = "InObject" \/ (m.state.tag # "Comment" /\ m.key_chain # <<>>)
    THEN [m EXCEPT !.result = Err(ByteLen(src), "ExpectedBracket")]
    ELSE [m EXCEPT !.result = Ok(ByteLen(src))]

\* AfterLoop as if an input ending inside an object body lacked a key
AfterLoopExpectedKey(m, src, stop) ==
    LET n == ByteLen(src)
        tag == m.state.tag
    IN  IF tag \in {"InKey", "StringValue"} THEN [m EXCEPT !.result = Err(n, "ExpectedQuote")]
        ELSE IF tag = "Colon" THEN [m EXCEPT !.result = Err(n, "ExpectedColon")]
        ELSE IF tag = "Comment" THEN
            IF m.state.multiline
            THEN [m EXCEPT !.result = Err(n, "ExpectedEndOfMultilineComment")]
            ELSE [m EXCEPT !.result = Ok(n)]
        ELSE IF tag \in {"EndOfValue", "ExpectingValue"} THEN
            IF m.key_chain # <<>>
            THEN [m EXCEPT !.result = Err(n, "ExpectedBracket")]
            ELSE [m EXCEPT !.result = Ok(n)]
        ELSE IF tag = "InObject" THEN [m EXCEPT !.result = Err(n, "ExpectedKey")]
        ELSE IF tag = "NumberValue" THEN
            [m EXCEPT !.calls = Append(@, Call(m.key_chain,
                                       ValNumber(Slice(src, m.state.start, n)), stop)),
                      !.result = Ok(n)]
        ELSE [m EXCEPT !.result = Err(n, "ExpectedTrueFalseNull")]

AfterLoop(m, src, stop) ==
    LET n == ByteLen(src)
        tag == m.state.tag
    IN  IF tag \in {"InKey", "StringValue"} THEN [m EXCEPT !.result = Err(n, "ExpectedQuote")]
        ELSE IF tag = "Colon" THEN [m EXCEPT !.result = Err(n, "ExpectedColon")]
        ELSE IF tag = "Comment" THEN
            IF m.state.multiline
            THEN [m EXCEPT !.result = Err(n, "ExpectedEndOfMultilineComment")]
            ELSE [m EXCEPT !.result = Ok(n)]
        ELSE IF tag \in {"EndOfValue", "ExpectingValue"} THEN
            IF m.key_chain # <<>>
            THEN [m EXCEPT !.result = Err(n, "ExpectedBracket")]
            ELSE [m EXCEPT !.result = Ok(n)]
        ELSE IF tag = "InObject" THEN [m EXCEPT !.result = Err(n, "ExpectedBracket")]
        ELSE IF tag = "NumberValue" THEN
            [m EXCEPT !.calls = Append(@, Call(m.key_chain,
                                       ValNumber(Slice(src, m.state.start, n)), stop)),
                      !.result = Ok(n)]
        ELSE [m EXCEPT !.result = Err(n, "ExpectedTrueFalseNull")]

\* the locals of parse_with_exit_signal before the loop
Start == [state |-> StExpectingValue, key_chain |-> <<>>, calls |-> <<>>, result |-> Running]

Machine == [state |-> state, key_chain |-> key_chain, calls |-> calls, result |-> result]

\* fn parse wraps the callback so that it always returns false
CallbackReturns(e) == IF e = "parse" THEN {FALSE} ELSE BOOLEAN

----------------------------------------------------------------------------
(* A whole call with a callback that never stops, as a function of the     *)
(* input: the loop from character p + 1 on, then the match after the loop. *)

RECURSIVE RunLoop(_, _, _, _)
RunLoop(m, src, p, opts) ==
    IF m.result # Running \/ p >= Len(src) THEN m
    ELSE RunLoop(LoopBody(m, src, OffsetOf(src, p + 1), src[p + 1], opts, FALSE),
                 src, p + 1, opts)

Run(src, opts) ==
    LET m == RunLoop(Start, src, 0, opts)
    IN  IF m.result # Running THEN m ELSE AfterLoop(m, src, FALSE)

----------------------------------------------------------------------------
(* fn key_chain_equals *)

\* what a helper returned
Returned(v) == [tag |-> "Returned", value |-> v]

\* key_chars.next(): the character at k of key, None past its end
NextChar(key, k) == IF k <= Len(key) THEN <<key[k]>> ELSE <<>>

\* the loop `for expected in expected.chars()` from character i of expected
\* on, with key_chars standing before character k of key
RECURSIVE SliceEquals(_, _, _, _)
SliceEquals(exp, key, i, k) ==
    IF i > Len(exp) THEN TRUE
    ELSE LET first == NextChar(key, k)
             escape == first = <<"\\">>
             next == IF escape THEN NextChar(key, k + 1) ELSE first
         IN  IF next = <<>> \/ exp[i] # next[1] THEN FALSE
             ELSE SliceEquals(exp, key, i + 1, IF escape THEN k + 2 ELSE k + 1)

\* one arm of `match (expected, key)`: FALSE where the code returns false
KeyEquals(exp, key) ==
    IF exp.tag = "Slice" /\ key.tag = "Slice" THEN SliceEquals(exp.s, key.s, 1, 1)
    ELSE IF exp.tag = "Index" /\ key.tag = "Index" THEN exp.i = key.i
    ELSE FALSE

key_chain_equals(ks, exp) ==
    IF Len(ks) = Len(exp)
    THEN \A i \in 1..Len(ks) : KeyEquals(exp[i], ks[i])
    ELSE FALSE

----------------------------------------------------------------------------
(* fn unescape_string_content, returning a Cow<str> *)

Borrowed(s) == [tag |-> "Borrowed", s |-> s]
Owned(s) == [tag |-> "Owned", s |-> s]

\* `result += rhs` forgetting that an empty left side can borrow rhs
add_assign_always_owned(self, rhs) == Owned(self.s \o rhs)

\* Cow<str> += &str (alloc::borrow): an empty left side becomes a borrow of
\* rhs, an empty rhs changes nothing, otherwise the text is copied
add_assign(self, rhs) ==
    IF self.s = <<>> THEN Borrowed(rhs)
    ELSE IF rhs # <<>> THEN Owned(self.s \o rhs)
    ELSE self

\* the loop over on.match_indices('\\') from character i on
RECURSIVE UnescapeLoop(_, _, _, _)
UnescapeLoop(src, i, start, res) ==
    IF i > Len(src) THEN add_assign(res, Slice(src, start, ByteLen(src)))
    ELSE IF src[i] = "\\"
         THEN UnescapeLoop(src, i + 1, OffsetOf(src, i) + 1,
                           add_assign(res, Slice(src, start, OffsetOf(src, i))))
         ELSE UnescapeLoop(src, i + 1, start, res)

unescape_string_content(src) == UnescapeLoop(src, 1, 0, Borrowed(<<>>))

----------------------------------------------------------------------------
(* Actions *)

\* no return value yet
NotReturned == [tag |-> "NotReturned"]

\* neither key_chain_equals nor unescape_string_content has been called
NoHelperCall == keys = <<>> /\ expected = <<>> /\ returned = NotReturned

\* the locals of a fresh call
Fresh ==
    /\ pos = 0
    /\ state = Start.state
    /\ key_chain = Start.key_chain
    /\ calls = Start.calls
    /\ result = Start.result

Install(m) ==
    /\ state' = m.state
    /\ key_chain' = m.key_chain
    /\ calls' = m.calls
    /\ result' = m.result

\* one loop iteration, on the next character of the input text src
Iterate(src) ==
    /\ result = Running
    /\ pos < Len(src)
    /\ \E stop \in CallbackReturns(entry) :
          Install(LoopBody(Machine, src, OffsetOf(src, pos + 1), src[pos + 1], options, stop))
    /\ pos' = pos + 1
    /\ on' = src
    /\ UNCHANGED <<options, entry, keys, expected, returned>>

\* The scan is one pass without lookahead, so the input is fixed piece by
\* piece as the loop reaches it: the next piece of text (one of `pieces`)
\* is appended and the loop runs on its first character.
Feed(pieces, limit) ==
    /\ fed < limit
    /\ pos = Len(on)
    /\ \E piece \in pieces : Iterate(on \o piece)
    /\ fed' = fed + 1

\* a loop iteration inside a piece of more than one character
Scan ==
    /\ Iterate(on)
    /\ UNCHANGED fed

\* the loop ends (the iterator is exhausted), then the match after the loop
EndOfInput ==
    /\ result = Running
    /\ pos = Len(on)
    /\ \E stop \in CallbackReturns(entry) : Install(AfterLoop(Machine, on, stop))
    /\ UNCHANGED <<on, pos, options, entry, fed, keys, expected, returned>>

\* a call of key_chain_equals(keys, expected)
KeyChainEquals ==
    /\ entry = "key_chain_equals"
    /\ returned = NotReturned
    /\ returned' = Returned(key_chain_equals(keys, expected))
    /\ UNCHANGED <<on, pos, state, key_chain, calls, result, options, fed, entry, keys, expected>>

\* a call of unescape_string_content(on)
Unescape ==
    /\ entry = "unescape_string_content"
    /\ returned = NotReturned
    /\ returned' = Returned(unescape_string_content(on))
    /\ UNCHANGED <<on, pos, state, key_chain, calls, result, options, fed, entry, keys, expected>>

AllOptions == [exit_on_first_value : BOOLEAN, allow_comments : BOOLEAN]

\* the single character pieces over a set of characters
Chars(S) == {<<c>> : c \in S}

\* the texts of at most n characters over a set of characters
Texts(S, n) == UNION {[1..k -> S] : k \in 0..n}

----------------------------------------------------------------------------
(* Reference: the JSON grammar of RFC 8259, as a recursive descent over a  *)
(* text.  It is what the claims mean by a well-formed document, its leaf   *)
(* scalars and their structural addresses; it models no code.  RefValue    *)
(* reads one value at character index i (1-based) under key path `path`    *)
(* and yields ok, the index after the value, and the leaves of the value   *)
(* in document order, each with its path.                                  *)

JsonWhitespace == {" ", "\n", "\t", "\r"}
JsonEscapes == {"\"", "\\", "/", "b", "f", "n", "r", "t"}
JsonControls == {"\n", "\t", "\r"}

RefFail == [ok |-> FALSE, next |-> 0, leaves |-> <<>>]
RefLeaf(path, value, next) ==
    [ok |-> TRUE, next |-> next, leaves |-> <<[keys |-> path, value |-> value]>>]

CharAt(s, i) == IF i >= 1 /\ i <= Len(s) THEN s[i] ELSE "EOF"

RECURSIVE RefSkipWs(_, _)
RefSkipWs(s, i) == IF CharAt(s, i) \in JsonWhitespace THEN RefSkipWs(s, i + 1) ELSE i

RECURSIVE RefSkipDigits(_, _)
RefSkipDigits(s, i) == IF CharAt(s, i) \in Digits THEN RefSkipDigits(s, i + 1) ELSE i

RECURSIVE RefStringEnd(_, _)
\* the index of the quote closing a string whose content starts at i, or 0
RefStringEnd(s, i) ==
    LET c == CharAt(s, i)
    IN  IF c = "EOF" \/ c \in JsonControls THEN 0
        ELSE IF c = "\"" THEN i
        ELSE IF c = "\\" THEN
            IF CharAt(s, i + 1) \in JsonEscapes THEN RefStringEnd(s, i + 2) ELSE 0
        ELSE RefStringEnd(s, i + 1)

\* the index after the number starting at i, or 0
RefNumberEnd(s, i) ==
    LET a == IF CharAt(s, i) = "-" THEN i + 1 ELSE i
        b == IF CharAt(s, a) = "0" THEN a + 1
             ELSE IF CharAt(s, a) \in Digits THEN RefSkipDigits(s, a + 1) ELSE 0
        c == IF b = 0 THEN 0
             ELSE IF CharAt(s, b) # "." THEN b
             ELSE IF CharAt(s, b + 1) \in Digits THEN RefSkipDigits(s, b + 2) ELSE 0
        d == IF c = 0 THEN 0
             ELSE IF CharAt(s, c) \notin {"e", "E"} THEN c
             ELSE LET k == IF CharAt(s, c + 1) \in {"+", "-"} THEN c + 2 ELSE c + 1
                  IN  IF CharAt(s, k) \in Digits THEN RefSkipDigits(s, k + 1) ELSE 0
    IN  d

RefLiteral(s, i, path) ==
    IF SubSeq(s, i, i + 3) = <<"t", "r", "u", "e">> THEN RefLeaf(path, ValBoolean(TRUE), i + 4)
    ELSE IF SubSeq(s, i, i + 3) = <<"n", "u", "l", "l">> THEN RefLeaf(path, ValNull, i + 4)
    ELSE IF SubSeq(s, i, i + 4) = <<"f", "a", "l", "s", "e">>
         THEN RefLeaf(path, ValBoolean(FALSE), i + 5)
    ELSE RefFail

RECURSIVE RefValue(_, _, _)
RECURSIVE RefElements(_, _, _, _)
RECURSIVE RefMembers(_, _, _, _)

RefValue(s, i, path) ==
    LET c == CharAt(s, i)
    IN  IF c = "\"" THEN
            LET q == RefStringEnd(s, i + 1)
            IN  IF q = 0 THEN RefFail
                ELSE RefLeaf(path, ValString(SubSeq(s, i + 1, q - 1)), q + 1)
        ELSE IF c \in Digits \cup {"-"} THEN
            LET e == RefNumberEnd(s, i)
            IN  IF e = 0 THEN RefFail ELSE RefLeaf(path, ValNumber(SubSeq(s, i, e - 1)), e)
        ELSE IF c \in {"t", "f", "n"} THEN RefLiteral(s, i, path)
        ELSE IF c = "[" THEN RefElements(s, RefSkipWs(s, i + 1), path, 0)
        ELSE IF c = "{" THEN RefMembers(s, RefSkipWs(s, i + 1), path, TRUE)
        ELSE RefFail

\* the elements of an array from its k-th (0-based) on, at index i, up to the `]`
RefElements(s, i, path, k) ==
    IF k = 0 /\ CharAt(s, i) = "]" THEN [ok |-> TRUE, next |-> i + 1, leaves |-> <<>>]
    ELSE LET v == RefValue(s, i, Append(path, KeyIndex(k)))
             j == RefSkipWs(s, v.next)
         IN  IF ~v.ok THEN RefFail
             ELSE IF CharAt(s, j) = "]" THEN [v EXCEPT !.next = j + 1]
             ELSE IF CharAt(s, j) = "," THEN
                 LET r == RefElements(s, RefSkipWs(s, j + 1), path, k + 1)
                 IN  IF r.ok THEN [r EXCEPT !.leaves = v.leaves \o @] ELSE RefFail
             ELSE RefFail

\* the members of an object at index i, up to the `}`
RefMembers(s, i, path, first) ==
    IF first /\ CharAt(s, i) = "}" THEN [ok |-> TRUE, next |-> i + 1, leaves |-> <<>>]
    ELSE IF CharAt(s, i) # "\"" THEN RefFail
    ELSE LET q == RefStringEnd(s, i + 1)
             c == RefSkipWs(s, q + 1)
             v == RefValue(s, RefSkipWs(s, c + 1),
                           Append(path, KeySlice(SubSeq(s, i + 1, q - 1))))
             j == RefSkipWs(s, v.next)
         IN  IF q = 0 \/ CharAt(s, c) # ":" THEN RefFail
             ELSE IF ~v.ok THEN RefFail
             ELSE IF CharAt(s, j) = "}" THEN [v EXCEPT !.next = j + 1]
             ELSE IF CharAt(s, j) = "," THEN
                 LET r == RefMembers(s, RefSkipWs(s, j + 1), path, FALSE)
                 IN  IF r.ok THEN [r EXCEPT !.leaves = v.leaves \o @] ELSE RefFail
             ELSE RefFail

\* the first value of a text, after leading whitespace
RefFirst(s) == RefValue(s, RefSkipWs(s, 1), <<>>)

\* s is exactly one well-formed JSON value, optionally surrounded by whitespace
IsJsonText(s) == RefFirst(s).ok /\ RefSkipWs(s, RefFirst(s).next) = Len(s) + 1

\* the callbacks made, without the values the callback returned
Emitted(cs) == [i \in 1..Len(cs) |-> [keys |-> cs[i].keys, value |-> cs[i].value]]

\* no callback asked to stop
NeverStopped == \A i \in 1..Len(calls) : ~calls[i].ret

----------------------------------------------------------------------------
(* Spec: parse_with_exit_signal on every input of at most MaxLen           *)
(* characters over Alphabet, under every ParseOptions and every callback.  *)

MaxLen == 4

Alphabet ==
    {"{", "}", "[", "]", "\"", ":", ",", "1", " ", "U+00A0", "\\", "/", "*", "\n", "#", "t",
     "U+00E9"}

Init ==
    /\ on = <<>>
    /\ fed = 0
    /\ Fresh
    /\ NoHelperCall
    /\ options \in AllOptions
    /\ entry = "parse_with_exit_signal"

Next == Feed(Chars(Alphabet), MaxLen) \/ EndOfInput

Spec == Init /\ [][Next]_vars

----------------------------------------------------------------------------
(* SpecDoc: parse_with_exit_signal, comments off, on every input made of   *)
(* at most MaxTokens of the pieces DocTokens: the structural characters,   *)
(* whitespace, scalars of every kind and a stray character.                *)

MaxTokens == 5

DocTokens ==
    Chars({"{", "}", "[", "]", ",", ":", " ", "U+00A0", "1", "x"})
    \cup {<<"\"", "a", "\"">>,
          <<"\"", "U+00E9", "\"">>,
          <<"\"", "\\", "\\", "\"">>,
          <<"\"", ",", "1", ",", "2", ",", "\"">>,
          <<"t", "r", "u", "e">>,
          <<"f", "a", "l", "s", "e">>,
          <<"n", "u", "l", "l">>}

InitDoc ==
    /\ on = <<>>
    /\ fed = 0
    /\ Fresh
    /\ NoHelperCall
    /\ options \in {o \in AllOptions : ~o.allow_comments}
    /\ entry = "parse_with_exit_signal"

NextDoc == Feed(DocTokens, MaxTokens) \/ Scan \/ EndOfInput

SpecDoc == InitDoc /\ [][NextDoc]_vars

----------------------------------------------------------------------------
(* SpecStop: parse_with_exit_signal, comments off, on every input made of  *)
(* at most MaxStopPieces pieces: a character of StopAlphabet, one of the   *)
(* words true, false, null, or the opening of an object member; the       *)
(* callback may stop at any value.                                         *)

MaxStopPieces == 4

StopAlphabet == {"[", "]", "}", "\"", ",", "1", "U+00A0", "\\", "U+00E9"}

Words == {<<"t", "r", "u", "e">>, <<"f", "a", "l", "s", "e">>, <<"n", "u", "l", "l">>}

\* the opening of an object up to its first member's value
MemberOpen == <<"{", "\"", "k", "\"", ":">>

NextStop ==
    Feed(Chars(StopAlphabet) \cup Words \cup {MemberOpen}, MaxStopPieces) \/ Scan \/ EndOfInput

SpecStop == InitDoc /\ [][NextStop]_vars

----------------------------------------------------------------------------
(* SpecComments: parse, and parse_with_exit_signal with comments allowed   *)
(* and exit_on_first_value off, on every input made of at most             *)
(* MaxCommentPieces pieces: a character of CommentAlphabet or a member key *)
(* with its colon.                                                         *)

MaxCommentPieces == 5

CommentAlphabet == {"{", "}", "[", "]", ",", "1", " ", "/", "*", "\n", "#"}

\* an object key and the colon after it
MemberKey == <<"\"", "k", "\"", ":">>

CommentsOn == [exit_on_first_value |-> FALSE, allow_comments |-> TRUE]

InitComments ==
    /\ on = <<>>
    /\ fed = 0
    /\ Fresh
    /\ NoHelperCall
    /\ \/ entry = "parse" /\ options = ParseOptionsDefault
       \/ entry = "parse_with_exit_signal" /\ options = CommentsOn

NextComments ==
    Feed(Chars(CommentAlphabet) \cup {MemberKey}, MaxCommentPieces) \/ Scan \/ EndOfInput

SpecComments == InitComments /\ [][NextComments]_vars

----------------------------------------------------------------------------
(* SpecLit: parse_with_exit_signal, under every ParseOptions and every     *)
(* callback, on every input of at most MaxLitLen characters over           *)
(* LitAlphabet: the letters of true, false and null, a two-byte character  *)
(* and the opening of an array.                                            *)

MaxLitLen == 6

LitAlphabet == {"t", "r", "u", "e", "f", "a", "l", "s", "n", "[", "U+00E9"}

NextLit == Feed(Chars(LitAlphabet), MaxLitLen) \/ EndOfInput

SpecLit == Init /\ [][NextLit]_vars

----------------------------------------------------------------------------
(* SpecKeys: key_chain_equals on every pair of key paths of at most        *)
(* MaxKeys keys, a key being an Index of IndexValues or a Slice of at most *)
(* MaxKeyLen characters over KeyAlphabet.                                  *)

MaxKeys == 2
MaxKeyLen == 2

KeyAlphabet == {"a", "\\"}
IndexValues == {0, 1}

JSONKeys == {KeyIndex(i) : i \in IndexValues} \cup {KeySlice(s) : s \in Texts(KeyAlphabet, MaxKeyLen)}

InitKeys ==
    /\ on = <<>>
    /\ fed = 0
    /\ Fresh
    /\ options = ParseOptionsDefault
    /\ entry = "key_chain_equals"
    /\ keys \in Texts(JSONKeys, MaxKeys)
    /\ expected \in Texts(JSONKeys, MaxKeys)
    /\ returned = NotReturned

NextKeys == KeyChainEquals

SpecKeys == InitKeys /\ [][NextKeys]_vars

----------------------------------------------------------------------------
(* SpecUnescape: unescape_string_content on every text of at most          *)
(* MaxTextLen characters over TextAlphabet.                                *)

MaxTextLen == 4

TextAlphabet == {"a", "\\", "\"", "U+00E9"}

InitUnescape ==
    /\ on \in Texts(TextAlphabet, MaxTextLen)
    /\ fed = 0
    /\ Fresh
    /\ options = ParseOptionsDefault
    /\ entry = "unescape_string_content"
    /\ keys = <<>>
    /\ expected = <<>>
    /\ returned = NotReturned

NextUnescape == Unescape

SpecUnescape == InitUnescape /\ [][NextUnescape]_vars

----------------------------------------------------------------------------
(* Claims checked under Spec *)

\* the step is the match after the loop: the call returns without consuming a character
AtEndOfInput == result = Running /\ result' # Running /\ pos' = pos

\* every number the callback received is a number of the JSON grammar
NumbersValid ==
    \A i \in 1..Len(calls) :
        calls[i].value.tag = "Number" =>
            RefNumberEnd(calls[i].value.s, 1) = Len(calls[i].value.s) + 1

\* C7 (as claimed): with a callback that never stops, exit_on_first_value off
\* and comments off, an Ok result implies that the input is exactly one
\* well-formed JSON value optionally surrounded by whitespace.  (Numbers are
\* taken as the caller's to validate, and an input without any scalar is left
\* aside: only inputs with a callback, all of whose numbers are valid, count.)
C7_OkImpliesWellFormed ==
    (/\ result.tag = "Ok"
     /\ calls # <<>>
     /\ NeverStopped
     /\ ~options.exit_on_first_value
     /\ ~options.allow_comments
     /\ NumbersValid) => IsJsonText(on)

\* C8 (as claimed): an Ok result at end of input (no callback stop, no
\* exit_on_first_value return) implies that the key-path stack is empty.
C8_OkImpliesEmptyStack ==
    (/\ result.tag = "Ok"
     /\ NeverStopped
     /\ ~options.exit_on_first_value) => key_chain = <<>>

\* C9: when the input ends inside a string value or a key the call returns
\* Err(ExpectedQuote); awaiting a colon, Err(ExpectedColon); inside an open
\* block comment, Err(ExpectedEndOfMultilineComment); inside an incomplete
\* true/false/null literal, Err(ExpectedTrueFalseNull); each with at = the
\* input length in bytes, and without invoking the callback.
C9_EndOfInputErrors ==
    [][AtEndOfInput =>
        LET n == ByteLen(on)
        IN  /\ state.tag \in {"StringValue", "InKey"} =>
                  result' = Err(n, "ExpectedQuote") /\ calls' = calls
            /\ state.tag = "Colon" =>
                  result' = Err(n, "ExpectedColon") /\ calls' = calls
            /\ (state.tag = "Comment" /\ state.multiline) =>
                  result' = Err(n, "ExpectedEndOfMultilineComment") /\ calls' = calls
            /\ state.tag = "TrueFalseNull" =>
                  result' = Err(n, "ExpectedTrueFalseNull") /\ calls' = calls]_vars

\* C9 witness: the input ended inside a key that holds a two-byte character
C9_Witness ==
    /\ state.tag = "InKey"
    /\ result = Err(ByteLen(on), "ExpectedQuote")
    /\ ByteLen(on) > Len(on)

----------------------------------------------------------------------------
(* Claims checked under SpecDoc *)

\* the input is a well-formed JSON document
WellFormed == IsJsonText(on)

\* C1 (as claimed): for a well-formed JSON document, a callback that never
\* stops and exit_on_first_value off, the call returns Ok(input length in
\* bytes) and the callbacks are exactly the leaf scalars in document order.
C1_WellFormedParses ==
    (/\ result # Running
     /\ NeverStopped
     /\ ~options.exit_on_first_value
     /\ WellFormed) =>
        /\ result = Ok(ByteLen(on))
        /\ Emitted(calls) = RefFirst(on).leaves

\* C2 (as claimed): during the parse of a well-formed document every key
\* path passed to the callback is the structural address of a leaf scalar
\* of the document.
C2_PathIsAddress ==
    WellFormed =>
        \A i \in 1..Len(calls) :
            \E j \in 1..Len(RefFirst(on).leaves) :
                RefFirst(on).leaves[j].keys = calls[i].keys

\* the input starts with a well-formed object or array that holds a scalar
\* and no backslash, whatever follows it
StartsWithContainer ==
    /\ on # <<>>
    /\ on[1] \in {"{", "["}
    /\ RefValue(on, 1, <<>>).ok
    /\ RefValue(on, 1, <<>>).leaves # <<>>
    /\ \A i \in 1..Len(on) : on[i] # "\\"

\* C4 (as claimed): with exit_on_first_value on and a callback that never
\* stops, an input that is a well-formed top-level object or array followed
\* by any text returns Ok(n), n the offset just past the closing bracket.
\* (Stated for containers that hold a scalar and no backslash.)
C4_ExitAfterFirstValue ==
    (/\ result # Running
     /\ NeverStopped
     /\ options.exit_on_first_value
     /\ StartsWithContainer) =>
        result = Ok(OffsetOf(on, RefValue(on, 1, <<>>).next))

----------------------------------------------------------------------------
(* Claims checked under SpecStop *)

NumberDelimiters == {" ", "\n", "\t", "\r", "U+00A0", "}", ",", "]"}

\* text t ends at character index p of s
EndsAt(s, p, t) == p >= Len(t) /\ SubSeq(s, p - Len(t) + 1, p) = t

\* C3: when the callback returns true for a value, no further callback is
\* made and the call returns Ok(offset) at once: for a string or a literal
\* the offset just past the character completing the value (the closing
\* quote, the last letter), for a number the offset of the delimiter that
\* ended it, which stays unconsumed (the input length when the number was
\* ended by the end of input).
C3_StopReturnsOffset ==
    \A i \in 1..Len(calls) :
        calls[i].ret =>
            /\ i = Len(calls)
            /\ result.tag = "Ok"
            /\ pos >= 1
            /\ LET v == calls[i].value
                   n == result.n
               IN  CASE v.tag = "String" ->
                            /\ n = OffsetOf(on, pos + 1)
                            /\ EndsAt(on, pos, <<"\"">> \o v.s \o <<"\"">>)
                     [] v.tag = "Boolean" ->
                            /\ n = OffsetOf(on, pos + 1)
                            /\ EndsAt(on, pos, IF v.b THEN <<"t", "r", "u", "e">>
                                                      ELSE <<"f", "a", "l", "s", "e">>)
                     [] v.tag = "Null" ->
                            /\ n = OffsetOf(on, pos + 1)
                            /\ EndsAt(on, pos, <<"n", "u", "l", "l">>)
                     [] v.tag = "Number" ->
                            IF on[pos] \in NumberDelimiters
                            THEN /\ n = OffsetOf(on, pos)
                                 /\ EndsAt(on, pos - 1, v.s)
                            ELSE /\ pos = Len(on)
                                 /\ n = ByteLen(on)
                                 /\ EndsAt(on, pos, v.s)

\* C3 witness: the callback stopped on a number of an object member that a
\* two-byte whitespace character ended
C3_Witness ==
    /\ calls # <<>>
    /\ Last(calls).ret
    /\ Last(calls).value.tag = "Number"
    /\ Last(calls).keys # <<>>
    /\ on[pos] = "U+00A0"
    /\ result = Ok(OffsetOf(on, pos))

----------------------------------------------------------------------------
(* Claims checked under SpecComments *)

\* C5 (as claimed): parse(on, cb) gives the result and the callbacks of
\* parse_with_exit_signal with a callback that never stops, early exit off
\* and comments allowed.
C5_ParseAllowsComments ==
    (entry = "parse" /\ result # Running) =>
        /\ result = Run(on, CommentsOn).result
        /\ Emitted(calls) = Emitted(Run(on, CommentsOn).calls)

\* the first comment of src when comments are allowed: `k` is the index of
\* its first character (0 when the scan enters no comment) and `before` the
\* state the scan met that character in
RECURSIVE FirstCommentFrom(_, _, _)
FirstCommentFrom(m, src, p) ==
    IF m.result # Running \/ p >= Len(src) THEN [k |-> 0, before |-> ""]
    ELSE LET next == LoopBody(m, src, OffsetOf(src, p + 1), src[p + 1], CommentsOn, FALSE)
         IN  IF next.result = Running /\ next.state.tag = "Comment" /\ m.state.tag # "Comment"
             THEN [k |-> p + 1, before |-> m.state.tag]
             ELSE FirstCommentFrom(next, src, p + 1)

FirstComment(src) == FirstCommentFrom(Start, src, 0)

\* the comment whose first character is src[k] is a `//` line comment
IsSlashSlash(src, k) == 0 < k /\ k < Len(src) /\ src[k] = "/" /\ src[k + 1] = "/"

\* the call on the same input with comments not allowed
WithoutComments == Run(on, [CommentsOn EXCEPT !.allow_comments = FALSE]).result

\* the input was parsed Ok with comments allowed and a callback that never stopped
OkWithComments ==
    /\ entry = "parse_with_exit_signal"
    /\ options.allow_comments
    /\ result.tag = "Ok"
    /\ NeverStopped

\* C6 (as claimed): an input whose first comment is a `//` line comment and
\* that parses Ok with comments allowed returns, with comments not allowed,
\* an error at the comment's first character whose reason is
\* ExpectedEndOfValue or ExpectedKey.
C6_DisabledFailsEndOfValueOrKey ==
    (OkWithComments /\ IsSlashSlash(on, FirstComment(on).k)) =>
        /\ WithoutComments.tag = "Err"
        /\ WithoutComments.reason \in {"ExpectedEndOfValue", "ExpectedKey"}
        /\ WithoutComments.at = OffsetOf(on, FirstComment(on).k)

\* C6 (amended): an input with a comment that parses Ok with comments allowed
\* returns, with comments not allowed, an error at the first character of
\* its first comment, whose reason is ExpectedEndOfValue (the comment follows
\* a value), ExpectedKey (it stands where a key is expected) or ExpectedValue
\* (it stands where a value is expected).
C6_DisabledFailsAtFirstComment ==
    OkWithComments =>
        LET first == FirstComment(on)
            off == WithoutComments
        IN  first.k # 0 =>
                /\ off.tag = "Err"
                /\ off.at = OffsetOf(on, first.k)
                /\ off.reason = CASE first.before = "ExpectingValue" -> "ExpectedValue"
                                  [] first.before = "InObject" -> "ExpectedKey"
                                  [] OTHER -> "ExpectedEndOfValue"

\* C6 witness: a `//` comment after a value that the callback received, in
\* an input that parses Ok with comments allowed and fails at the comment
\* with ExpectedEndOfValue when they are not
C6_Witness ==
    /\ OkWithComments
    /\ calls # <<>>
    /\ IsSlashSlash(on, FirstComment(on).k)
    /\ WithoutComments = Err(OffsetOf(on, FirstComment(on).k), "ExpectedEndOfValue")

----------------------------------------------------------------------------
(* Claims checked under SpecLit *)

\* the loop takes one character while a literal is open
LiteralStep == state.tag = "TrueFalseNull" /\ result = Running /\ pos' = pos + 1

\* the characters of the open literal, the one being taken included
LiteralText ==
    LET first == CHOOSE j \in 1..pos : OffsetOf(on, j) = state.start
    IN  SubSeq(on', first, pos')

\* this step invokes the callback once, with `value` at the current path
Emits(value) ==
    /\ Emitted(calls') = Append(Emitted(calls), [keys |-> key_chain, value |-> value])
    /\ result'.tag # "Err"

\* this step only buffers the character
Buffers == calls' = calls /\ result' = Running /\ state' = state

\* this step rejects the literal at the character being taken
Rejects == calls' = calls /\ result' = Err(OffsetOf(on', pos'), "ExpectedTrueFalseNull")

LitTrue == <<"t", "r", "u", "e">>
LitNull == <<"n", "u", "l", "l">>
LitFals == <<"f", "a", "l", "s">>
LitFalse == <<"f", "a", "l", "s", "e">>

\* C10 (as claimed): a literal is decided on its 4th character: fewer than
\* four characters are only buffered, "true" and "null" are emitted, "fals"
\* waits for a 5th character that must complete "false", and any other
\* text is rejected at the offset of its 4th (after "fals": 5th) character
\* without a callback.
C10_DecidedAtFourthCharacter ==
    [][LiteralStep =>
        LET text == LiteralText
        IN  CASE Len(text) < 4 -> Buffers
              [] text = LitTrue -> Emits(ValBoolean(TRUE))
              [] text = LitNull -> Emits(ValNull)
              [] text = LitFals -> Buffers
              [] text = LitFalse -> Emits(ValBoolean(FALSE))
              [] OTHER -> Rejects /\ Len(text) \in {4, 5}]_vars

\* C10 (amended): a literal is decided on its 4th byte: a character that
\* starts before the 4th byte of the literal is only buffered, "true" and
\* "null" are emitted, "fals" waits for a 5th byte that must complete
\* "false", and any other text is rejected, at the offset of the first
\* character that starts at or after the literal's 4th byte, without a
\* callback.
C10_DecidedAtFourthByte ==
    [][LiteralStep =>
        LET text == LiteralText
            diff == OffsetOf(on', pos') - state.start + 1
        IN  CASE diff < 4 -> Buffers
              [] text = LitTrue -> Emits(ValBoolean(TRUE))
              [] text = LitNull -> Emits(ValNull)
              [] text = LitFals -> Buffers
              [] text = LitFalse -> Emits(ValBoolean(FALSE))
              [] OTHER -> Rejects]_vars

\* C10 witness: a literal holding a two-byte character, rejected at its
\* third character, which starts at the literal's 4th byte
C10_Witness ==
    /\ on = <<"t", "U+00E9", "r">>
    /\ pos = 3
    /\ calls = <<>>
    /\ result = Err(3, "ExpectedTrueFalseNull")

----------------------------------------------------------------------------
(* Claims checked under SpecKeys and SpecUnescape *)

\* text with each escape-introducing backslash removed and the character
\* after it kept as it is
RECURSIVE Unescaped(_)
Unescaped(s) ==
    IF s = <<>> THEN <<>>
    ELSE IF s[1] = "\\"
         THEN IF Len(s) = 1 THEN <<>> ELSE <<s[2]>> \o Unescaped(SubSeq(s, 3, Len(s)))
         ELSE <<s[1]>> \o Unescaped(Tail(s))

\* two keys denote the same step of a path
SameKey(key, exp) ==
    \/ key.tag = "Index" /\ exp.tag = "Index" /\ key.i = exp.i
    \/ key.tag = "Slice" /\ exp.tag = "Slice" /\ Unescaped(key.s) = exp.s

\* C11 (as claimed): key_chain_equals(keys, expected) returns true if and
\* only if the paths have the same length and at every position both keys
\* are equal Index entries or Slice entries whose key text, unescaped,
\* equals the expected text.
C11_EqualsIffSameLocation ==
    (entry = "key_chain_equals" /\ returned # NotReturned) =>
        (returned.value <=>
            /\ Len(keys) = Len(expected)
            /\ \A i \in 1..Len(keys) : SameKey(keys[i], expected[i]))

\* C12 (as claimed): unescape_string_content(on) is on with every
\* escape-introducing backslash dropped and the character after it kept,
\* two consecutive backslashes yielding one backslash.
C12_UnescapeDropsEscapes ==
    (entry = "unescape_string_content" /\ returned # NotReturned) =>
        returned.value.s = Unescaped(on)

\* on contains a backslash
HasBackslash == \E i \in 1..Len(on) : on[i] = "\\"

\* the number of non-empty pieces of on between its backslashes
Pieces ==
    Cardinality({i \in 1..Len(on) : on[i] # "\\" /\ (i = 1 \/ on[i - 1] = "\\")})

\* C13 (as claimed): the result is a borrowed view equal to on when on has
\* no backslash, and an owned string whenever on has a backslash.
C13_OwnedIffBackslash ==
    (entry = "unescape_string_content" /\ returned # NotReturned) =>
        IF HasBackslash THEN returned.value.tag = "Owned"
        ELSE returned.value = Borrowed(on)

\* C13 (amended): the result is a borrowed view equal to on when on has no
\* backslash; when on has backslashes it is an owned string if at least
\* two of the pieces between the backslashes are non-empty, and otherwise
\* a borrowed view of the one non-empty piece (or of the empty text).
C13_OwnedIffTwoPieces ==
    (entry = "unescape_string_content" /\ returned # NotReturned) =>
        /\ ~HasBackslash => returned.value = Borrowed(on)
        /\ returned.value.tag = (IF Pieces >= 2 THEN "Owned" ELSE "Borrowed")

\* C13 witness: a text with a backslash whose result is a borrowed view of
\* its one non-empty piece
C13_Witness ==
    /\ entry = "unescape_string_content"
    /\ HasBackslash
    /\ returned = Returned(Borrowed(<<"a", "U+00E9">>))

----------------------------------------------------------------------------
(* Claims about the key-path stack, checked under Spec *)

\* the number of `{` and `[` of text s opened and not yet closed, brackets
\* inside strings not counted; q: inside a string, e: after a backslash
RECURSIVE OpenDepth(_, _, _, _)
OpenDepth(s, i, q, e) ==
    IF i > Len(s) THEN 0
    ELSE IF q THEN OpenDepth(s, i + 1, e \/ s[i] # "\"", ~e /\ s[i] = "\\")
    ELSE (CASE s[i] \in {"{", "["} -> 1
            [] s[i] \in {"}", "]"} -> -1
            [] OTHER -> 0) + OpenDepth(s, i + 1, s[i] = "\"", FALSE)

\* C14 (as claimed): in every state of the scan the length of the key-path
\* stack is the number of `{` and `[` opened and not yet closed.
C14_StackLengthIsDepth ==
    result = Running => Len(key_chain) = OpenDepth(on, 1, FALSE, FALSE)

\* the loop takes the character chr
Takes(chr) == pos' = pos + 1 /\ on'[pos'] = chr

\* C15: an Index entry that stays on the key-path stack keeps its value or
\* gains one, and gains one only when it is on top and a comma is processed
\* as the end of a value (between values, or ending a number); an entry is
\* pushed only by `[`, as Index(0).
C15_IndexOnlyIncrements ==
    [][/\ \A i \in 1..Len(key_chain) :
             (key_chain[i].tag = "Index" /\ i <= Len(key_chain')) =>
                 /\ key_chain'[i].tag = "Index"
                 /\ key_chain'[i].i \in {key_chain[i].i, key_chain[i].i + 1}
                 /\ key_chain'[i].i # key_chain[i].i =>
                        /\ i = Len(key_chain)
                        /\ Len(key_chain') = Len(key_chain)
                        /\ Takes(",")
                        /\ state.tag \in {"EndOfValue", "NumberValue"}
       /\ (Len(key_chain') > Len(key_chain) /\ Last(key_chain').tag = "Index") =>
             /\ Takes("[")
             /\ key_chain' = Append(key_chain, KeyIndex(0))]_vars

\* C15 witness: a comma that ended a value has moved the Index of a nested
\* array from 0 to 1
C15_Witness ==
    /\ key_chain = <<KeyIndex(0), KeyIndex(1)>>
    /\ on[pos] = ","
    /\ state.tag = "ExpectingValue"
    /\ result = Running

\* the texts `{}`, `[]` and `[{}]`
EmptyContainers == {<<"{", "}">>, <<"[", "]">>, <<"[", "{", "}", "]">>}

\* C20 (as claimed): an empty container is a completed value: after its
\* closing bracket the scan is between values with the key-path stack as
\* before the container, and at the end of input the call returns Ok(input
\* length) without a callback.
C20_EmptyContainersParse ==
    (on \in EmptyContainers /\ pos = Len(on) /\ ~options.exit_on_first_value) =>
        /\ calls = <<>>
        /\ result \in {Running, Ok(ByteLen(on))}
        /\ result = Running => (state.tag = "EndOfValue" /\ key_chain = <<>>)

----------------------------------------------------------------------------
(* Claims about comments, checked under SpecComments *)

\* C16 (as claimed): with comments allowed, a `/` or `#` read between
\* values enters comment scanning and leaves the key-path stack as a comma
\* read in the same state would: the top Index incremented, or the
\* finished named key popped.
C16_CommentActsAsComma ==
    [][(/\ state.tag = "EndOfValue"
        /\ result = Running
        /\ options.allow_comments
        /\ (Takes("/") \/ Takes("#"))) =>
            /\ state'.tag = "Comment"
            /\ key_chain' = end_of_value(OffsetOf(on', pos'), ",", state, key_chain, TRUE).key_chain]_vars

\* the loop takes one character while a comment is open
CommentStep == state.tag = "Comment" /\ result = Running /\ pos' = pos + 1

\* the index of the first character of the open comment
CommentStart == CHOOSE j \in 1..pos : OffsetOf(on, j) = state.start

\* the open comment is a block comment: `/` immediately followed by `*`
IsBlock == on[CommentStart] = "/" /\ on'[CommentStart + 1] = "*"

\* the character taken ends the open comment: a newline for a `#` or `/`
\* comment, for a block comment the `/` of a `*/` that lies after the opener
EndsComment ==
    IF IsBlock
    THEN Takes("/") /\ on[pos] = "*" /\ pos >= CommentStart + 2
    ELSE Takes("\n")

\* C17: a comment opened by `#`, or by `/` not immediately followed by `*`,
\* ends at the next newline; one opened by `/*` ends at the first `*/` after
\* the opener, newlines inside it ignored; when a comment ends the scan
\* awaits a value if the top of the key-path stack is an Index and scans
\* for a key if it is a named key; the stack is unchanged all along.
C17_CommentScanning ==
    [][CommentStep =>
        /\ key_chain' = key_chain
        /\ calls' = calls
        /\ result' = Running
        /\ IF EndsComment
           THEN /\ TopIsIndex(key_chain) => state' = StExpectingValue
                /\ TopIsSlice(key_chain) => state' = StInObject
           ELSE state'.tag = "Comment" /\ state'.start = state.start]_vars

\* C17 witness: a block comment `/**/` has ended inside an array and the
\* scan awaits a value
C17_Witness ==
    /\ on = <<"[", "/", "*", "*", "/">>
    /\ pos = 5
    /\ state = StExpectingValue
    /\ key_chain = <<KeyIndex(0)>>

\* text s with text c inserted after its first p characters
Insert(s, p, c) == SubSeq(s, 1, p) \o c \o SubSeq(s, p + 1, Len(s))

\* the character after the whitespace that follows the first p characters
\* of s, "EOF" if there is none
RECURSIVE NextToken(_, _)
NextToken(s, p) ==
    IF p >= Len(s) THEN "EOF"
    ELSE IF is_whitespace(s[p + 1]) THEN NextToken(s, p + 1)
    ELSE s[p + 1]

\* positions of a comment-free text without strings other than keys where
\* JSON permits whitespace: before the top-level value, after `{`, `[`, `:`
\* or `,`, and in the whitespace between a value and the comma or closer
\* after it
CommentPositions(s) ==
    {p \in 0..Len(s) :
        \/ p = 0
        \/ p > 0 /\ s[p] \in {"{", "[", ":", ","}
        \/ p > 0 /\ is_whitespace(s[p]) /\ NextToken(s, p) \in {",", "}", "]"}}

\* a closed block comment and a newline-terminated line comment
SampleComments == {<<"/", "*", "*", "/">>, <<"/", "/", "\n">>}

\* C18 (as claimed): for an input that parses Ok with comments allowed,
\* inserting a closed block comment or a newline-terminated line comment
\* where JSON permits whitespace still parses Ok, with the same callbacks.
\* (Stated for inputs without comments that hold a scalar.)
C18_CommentsTransparent ==
    (/\ OkWithComments
     /\ calls # <<>>
     /\ \A i \in 1..Len(on) : on[i] \notin {"/", "#", "*"}) =>
        \A p \in CommentPositions(on) : \A c \in SampleComments :
            /\ Run(Insert(on, p, c), CommentsOn).result.tag = "Ok"
            /\ Emitted(Run(Insert(on, p, c), CommentsOn).calls) = Emitted(calls)

----------------------------------------------------------------------------
(* Claims about strings, checked under SpecStop *)

\* C19 (as claimed): a string value ends at the first `"` that is not
\* escaped, a backslash escaped by a backslash escaping nothing, and the
\* String emitted is the raw text between the two quotes.  (Stated for a
\* string that starts the input.)
C19_StringEndsAtUnescapedQuote ==
    LET close == IF on # <<>> /\ on[1] = "\"" THEN RefStringEnd(on, 2) ELSE 0
    IN  (close # 0 /\ pos >= close) =>
            /\ calls # <<>>
            /\ calls[1].keys = <<>>
            /\ calls[1].value = ValString(SubSeq(on, 2, close - 1))

----------------------------------------------------------------------------
(* Claims about exit_on_first_value, checked under Spec *)

\* C21 (as claimed): with exit_on_first_value on and a callback that never
\* stops, the loop never returns Ok while a top-level object or array is
\* still open: it returns Ok only on the character that closes it.  (Stated
\* for inputs that start with an object or array.)
C21_NoEarlyOkInsideContainer ==
    [][(/\ options.exit_on_first_value
        /\ result = Running
        /\ pos' = pos + 1
        /\ result'.tag = "Ok"
        /\ on'[1] \in {"{", "["}
        /\ \A i \in 1..Len(calls') : ~calls'[i].ret) =>
            /\ OpenDepth(SubSeq(on', 1, pos'), 1, FALSE, FALSE) = 0
            /\ on'[pos'] \in {"}", "]"}]_vars

----------------------------------------------------------------------------
(* Claims about closers, numbers and the end of input, checked under       *)
(* SpecStop *)

\* the callback, if this step invoked it, did not ask to stop
NotStoppedNow == calls' = calls \/ ~Last(calls').ret

\* the loop takes one character as the end of a value: between values, or
\* as the delimiter that ends a number
EndOfValueStep ==
    /\ state.tag \in {"EndOfValue", "NumberValue"}
    /\ result = Running
    /\ pos' = pos + 1
    /\ on'[pos'] \in NumberDelimiters
    /\ NotStoppedNow

\* this step rejects the character taken as not ending a value, popping nothing
RejectsCloser ==
    /\ result' = Err(OffsetOf(on', pos'), "ExpectedEndOfValue")
    /\ key_chain' = key_chain

\* C22: taken as the end of a value, a `}` when the top of the key-path
\* stack is not a named key, or a `]` when it is not an Index, returns
\* Err(ExpectedEndOfValue) at the closer's offset and pops nothing; a `}`
\* on a named key and a `]` on an Index pop that key.
C22_MismatchedCloser ==
    [][EndOfValueStep =>
        /\ Takes("}") => IF TopIsSlice(key_chain)
                         THEN key_chain' = Pop(key_chain) /\ result'.tag # "Err"
                         ELSE RejectsCloser
        /\ Takes("]") => IF TopIsIndex(key_chain)
                         THEN key_chain' = Pop(key_chain) /\ result'.tag # "Err"
                         ELSE RejectsCloser]_vars

\* C22 witness: a `]` that ended the number of an object member was
\* rejected with the member's key left on the stack
C22_Witness ==
    /\ on = MemberOpen \o <<"1", "]">>
    /\ pos = Len(on)
    /\ key_chain = <<KeySlice(<<"k">>)>>
    /\ result = Err(6, "ExpectedEndOfValue")

\* the text of the open number up to character p of the input
NumberText(p) ==
    SubSeq(on, CHOOSE j \in 1..pos : OffsetOf(on, j) = state.start, p)

\* this step invokes the callback once, with the open number up to
\* character p at the current path
EmitsNumber(p) ==
    Emitted(calls') = Append(Emitted(calls), [keys |-> key_chain, value |-> ValNumber(NumberText(p))])

\* C23: an open number runs up to the first whitespace character, `}`, `,`
\* or `]`, any other character being part of it; at that delimiter the
\* callback receives the raw slice once, and unless it stops the delimiter
\* is processed by end_of_value in the same step; a number still open at
\* the end of input is emitted once and the call returns Ok(input length).
C23_NumberSlice ==
    [][/\ (state.tag = "NumberValue" /\ result = Running /\ pos' = pos + 1) =>
             IF on'[pos'] \in NumberDelimiters
             THEN /\ EmitsNumber(pos)
                  /\ NotStoppedNow =>
                        LET r == end_of_value(OffsetOf(on', pos'), on'[pos'], StEndOfValue,
                                              key_chain, options.allow_comments)
                        IN  IF r.err # ""
                            THEN result' = Err(OffsetOf(on', pos'), r.err)
                            ELSE /\ result'.tag # "Err"
                                 /\ state' = r.state
                                 /\ key_chain' = r.key_chain
             ELSE /\ calls' = calls
                  /\ state' = state
                  /\ key_chain' = key_chain
                  /\ result' = Running
       /\ (state.tag = "NumberValue" /\ AtEndOfInput) =>
             /\ EmitsNumber(Len(on))
             /\ result' = Ok(ByteLen(on))]_vars

\* C23 witness: a number with a letter in it, ended in an array by a comma
\* that moved the Index on
C23_Witness ==
    /\ calls # <<>>
    /\ Last(calls).value = ValNumber(<<"1", "U+00E9">>)
    /\ on[pos] = ","
    /\ key_chain = <<KeyIndex(1)>>
    /\ state = StExpectingValue

\* C24 (as claimed): when the input ends while the scan expects a key
\* inside an object body, the call returns Err(ExpectedKey) at the input
\* length.
C24_EndInObjectExpectedKey ==
    [][(AtEndOfInput /\ state.tag = "InObject") =>
            result' = Err(ByteLen(on), "ExpectedKey")]_vars

\* C24 (amended): when the input ends while the scan expects a key inside
\* an object body, the call returns Err(ExpectedBracket) at the input
\* length, without a callback.
C24_EndInObjectExpectedBracket ==
    [][(AtEndOfInput /\ state.tag = "InObject") =>
            /\ result' = Err(ByteLen(on), "ExpectedBracket")
            /\ calls' = calls]_vars

\* C24 witness: the input ended after the comma that separates the members
\* of an object
C24_Witness ==
    /\ on = MemberOpen \o <<"1", ",">>
    /\ state = StInObject
    /\ result = Err(7, "ExpectedBracket")

====
